---- MODULE Spec2Model ----
(***************************************************************************)
(* A model of the observe logging facade (agility-partners/observe).       *)
(*                                                                         *)
(* Three variants of the logger live in the sources:                       *)
(*   "observe" : class Logger of src/src/observe.ts (lines 223-468)        *)
(*   "simple"  : class Logger of src/unnamed/part_000 (lines 50-245)       *)
(*   "winston" : createLogger of src/src/observe.ts (lines 131-201)        *)
(* The variant is fixed in the initial state.  JavaScript values are       *)
(* modelled as tagged records, maps as functions from key strings to       *)
(* strings, and the remote sink (Logtail) as an environment whose          *)
(* constructor, submissions and drain may each succeed or fail.            *)
(***************************************************************************)
EXTENDS Integers, Sequences, FiniteSets, TLC

VARIABLES
    variant,      \* which of the three logger implementations is running
    opts,         \* the options the root logger was created with
    createThrew,  \* TRUE when createLogger / new Logger threw to its caller
    loggers,      \* logger id -> the fields of that Logger object
    parent,       \* logger id -> the logger with() was called on (0: none)
    attempts,     \* logger id -> number of `new Logtail(...)` calls made for it
    last,         \* what the most recent leveled call did
    inflight,     \* logger id -> pending submission promises of its sink
    unhandled,    \* number of promise rejections nobody handled
    flush,        \* the flush() invocation in progress, if any
    elapsed       \* milliseconds since the flush in progress was started

vars == <<variant, opts, createThrew, loggers, parent, attempts, last,
          inflight, unhandled, flush, elapsed>>

----------------------------------------------------------------------------
(* Bounds *)

\* loggers Spec derives with with(); RebindSpec may derive one more, so that
\* a derived logger can itself be bound again
MaxDerived == 1
MaxLoggers == MaxDerived + 2
\* submission promises that may be pending at once, over all sinks
MaxInflight == 1
\* the sink-construction counter of a logger stops counting here
MaxAttempts == 3

LoggerIds == 1..MaxLoggers
Root == 1

----------------------------------------------------------------------------
(* JavaScript values *)

EmptyMap == [k \in {} |-> ""]

Str(s) == [t |-> "str", s |-> s, n |-> "", m |-> EmptyMap]
Num(s) == [t |-> "num", s |-> s, n |-> "", m |-> EmptyMap]
Null == [t |-> "null", s |-> "", n |-> "", m |-> EmptyMap]
Obj(m) == [t |-> "obj", s |-> "", n |-> "", m |-> m]
\* an Error: name and message are not enumerable; m holds the enumerable extras
Err(name, msg) == [t |-> "err", s |-> msg, n |-> name, m |-> EmptyMap]
\* an object that refers to itself: JSON.stringify throws on it
Circ == [t |-> "circ", s |-> "", n |-> "", m |-> EmptyMap]

TypeOf(v) ==
    CASE v.t = "str" -> "string"
      [] v.t = "num" -> "number"
      [] OTHER -> "object"

\* a || b on strings: the empty string (like undefined) is falsy
Or(a, b) == IF a # "" THEN a ELSE b

\* obj[k], with "" standing for undefined
Get(m, k) == IF k \in DOMAIN m THEN m[k] ELSE ""

\* { ...a, ...b }
Merge(a, b) ==
    [k \in DOMAIN a \cup DOMAIN b |-> IF k \in DOMAIN b THEN b[k] ELSE a[k]]

\* the own enumerable properties an object spread copies
OwnEnumerable(v) == IF TypeOf(v) = "object" THEN v.m ELSE EmptyMap

KeyOrder == <<"a", "b", "service", "environment", "version", "timestamp">>

RECURSIVE JsonMembers(_, _, _)
JsonMembers(m, i, first) ==
    IF i > Len(KeyOrder) THEN ""
    ELSE IF KeyOrder[i] \in DOMAIN m
         THEN (IF first THEN "" ELSE ",")
              \o "\"" \o KeyOrder[i] \o "\":\"" \o m[KeyOrder[i]] \o "\""
              \o JsonMembers(m, i + 1, FALSE)
         ELSE JsonMembers(m, i + 1, first)

\* JSON.stringify of one value inside an array; ok = FALSE when it throws
JsonValue(v) ==
    CASE v.t = "str" -> [ok |-> TRUE, s |-> "\"" \o v.s \o "\""]
      [] v.t = "num" -> [ok |-> TRUE, s |-> v.s]
      [] v.t = "null" -> [ok |-> TRUE, s |-> "null"]
      [] v.t = "circ" -> [ok |-> FALSE, s |-> ""]
      [] OTHER -> [ok |-> TRUE, s |-> "{" \o JsonMembers(v.m, 1, TRUE) \o "}"]

JsonJoin(i, h, r) ==
    [ok |-> h.ok /\ r.ok, s |-> (IF i > 1 THEN "," ELSE "") \o h.s \o r.s]

RECURSIVE JsonElements(_, _)
JsonElements(args, i) ==
    IF i > Len(args) THEN [ok |-> TRUE, s |-> ""]
    ELSE JsonJoin(i, JsonValue(args[i]), JsonElements(args, i + 1))

\* JSON.stringify(args) for the argument array
JsonStringify(args) == [JsonElements(args, 1) EXCEPT !.s = "[" \o @ \o "]"]

----------------------------------------------------------------------------
(* Inputs *)

\* process.env with none of the consulted variables set
ProcessEnv ==
    [BETTER_STACK_SOURCE_TOKEN |-> "", BETTER_STACK_INGESTING_URL |-> "",
     SERVICE_NAME |-> "", NODE_ENV |-> "", SERVICE_VERSION |-> ""]

Variants == {"observe", "simple", "winston"}

\* an endpoint the sink's constructor rejects
BadEndpoint == "https://["

\* no token; a token with a good endpoint; a token with a malformed endpoint
RootOptions ==
    [betterStackToken : {""}, betterStackEndpoint : {""},
     service : {"svc"}, environment : {""}, version : {""},
     minLevel : {"warn"}]
    \cup
    [betterStackToken : {"tok"}, betterStackEndpoint : {"in.logs.example", BadEndpoint},
     service : {"svc"}, environment : {""}, version : {""},
     minLevel : {"warn"}]

Contexts ==
    { [a |-> "1", b |-> "2"], [b |-> "3", service |-> "svc2"] }

Metas == { [a |-> "9"], [c |-> "3"] }

Methods == {"log", "info", "warn", "error", "debug"}

\* a message alone or with a metadata map: the calls bound context is merged into
BoundArgLists == {<<Str("x")>>} \cup { <<Str("x"), Obj(m)>> : m \in Metas }

ArgLists ==
    BoundArgLists \cup {<<Err("TypeError", "boom")>>, <<Str("x"), Num("42")>>}

\* further argument shapes of the normaliser: no argument, non-string first
\* arguments (one of them not serialisable), null or a number as the only
\* trailing argument, and two trailing arguments
WideArgLists ==
    ArgLists \cup
    {<<>>, <<Num("7")>>, <<Circ>>, <<Str("x"), Null>>,
     <<Str("x"), Num("42"), Str("y")>>, <<Str("x"), Obj([a |-> "9"]), Str("y")>>}

SubmitOutcomes == {"promise", "throws"}

----------------------------------------------------------------------------
(* Logger construction *)

NoLogger ==
    [exists |-> FALSE, logtail |-> FALSE, isInitialized |-> FALSE,
     betterStackToken |-> "", betterStackEndpoint |-> "",
     service |-> "", environment |-> "", version |-> "",
     derived |-> FALSE, context |-> EmptyMap]

\* endpoint.startsWith('http://') || endpoint.startsWith('https://'), on the
\* endpoints of the model
StartsWithHttp(endpoint) == endpoint \in {BadEndpoint}

\* the endpoint handed to the sink's constructor
SinkEndpoint(betterStackEndpoint) ==
    LET endpoint == Or(betterStackEndpoint, "your-ingesting-url.betterstackdata.com")
    IN IF StartsWithHttp(endpoint) THEN endpoint ELSE "https://" \o endpoint

\* whether `new Logtail(token, {endpoint})` returns (TRUE) or throws (FALSE):
\* the constructor fails on a malformed endpoint
LogtailConstructs(token, endpoint) == endpoint # BadEndpoint

\* Logger.initLogtail
InitLogtail(lg) ==
    IF lg.isInitialized THEN [lg |-> lg, tried |-> 0, events |-> <<>>]
    ELSE IF lg.betterStackToken # ""
         THEN [lg |-> IF LogtailConstructs(lg.betterStackToken,
                                           SinkEndpoint(lg.betterStackEndpoint))
                      THEN [lg EXCEPT !.logtail = TRUE,
                                            !.isInitialized = TRUE]
                      ELSE lg,
               tried |-> 1,
               events |-> <<"diag", "diag">>]
         ELSE [lg |-> lg, tried |-> 0, events |-> <<"diag">>]

\* new Logger(options) of src/src/observe.ts
NewLoggerObserve(options) ==
    InitLogtail(
        [NoLogger EXCEPT
            !.exists = TRUE,
            !.betterStackToken =
                Or(options.betterStackToken, ProcessEnv.BETTER_STACK_SOURCE_TOKEN),
            !.betterStackEndpoint =
                Or(options.betterStackEndpoint, ProcessEnv.BETTER_STACK_INGESTING_URL),
            !.service = Or(options.service, Or(ProcessEnv.SERVICE_NAME, "application")),
            !.environment = Or(options.environment, Or(ProcessEnv.NODE_ENV, "development")),
            !.version = Or(options.version, Or(ProcessEnv.SERVICE_VERSION, "1.0.0"))])

\* new Logger(options) of src/unnamed/part_000
NewLoggerSimple(options) ==
    LET base == [NoLogger EXCEPT
                    !.exists = TRUE,
                    !.service = Or(options.service, Or(ProcessEnv.SERVICE_NAME, "application")),
                    !.environment = Or(options.environment, Or(ProcessEnv.NODE_ENV, "development")),
                    !.version = Or(options.version, Or(ProcessEnv.SERVICE_VERSION, "1.0.0")),
                    !.betterStackToken = options.betterStackToken,
                    !.betterStackEndpoint = options.betterStackEndpoint]
    IN IF options.betterStackToken # ""
       THEN [lg |-> [base EXCEPT !.logtail =
                        LogtailConstructs(options.betterStackToken,
                                          SinkEndpoint(options.betterStackEndpoint))],
             tried |-> 1, events |-> <<>>]
       ELSE [lg |-> base, tried |-> 0, events |-> <<>>]

NewLogger(v, options) ==
    IF v = "observe" THEN NewLoggerObserve(options)
    ELSE NewLoggerSimple(options)

\* createLogger(customConfig) of the winston variant: `new Logtail` is not
\* guarded, so a constructor failure leaves no logger and reaches the caller
CreateLoggerWinston(options) ==
    LET ok == LogtailConstructs(options.betterStackToken,
                                SinkEndpoint(options.betterStackEndpoint))
        base == [NoLogger EXCEPT
                    !.betterStackToken = options.betterStackToken,
                    !.betterStackEndpoint = options.betterStackEndpoint,
                    !.service = "application",
                    !.environment = Or(ProcessEnv.NODE_ENV, "development"),
                    !.version = "1.0.0"]
    IN IF options.betterStackToken # ""
       THEN [lg |-> [base EXCEPT !.exists = ok, !.logtail = ok],
             tried |-> 1, threw |-> ~ok]
       ELSE [lg |-> [base EXCEPT !.exists = TRUE], tried |-> 0, threw |-> FALSE]

\* new Logger(options) never throws: initLogtail (observe) and the
\* constructor (simple) catch the failure of `new Logtail`
CaughtConstruction(made) ==
    [lg |-> made.lg, tried |-> made.tried, threw |-> FALSE]

\* createLogger(options) of the running variant
CreateLogger(v, options) ==
    IF v = "winston" THEN CreateLoggerWinston(options)
    ELSE CaughtConstruction(NewLogger(v, options))

----------------------------------------------------------------------------
(* The leveled methods *)

NoRec == [level |-> "", message |-> "", kv |-> EmptyMap,
          hasArgs |-> FALSE, args |-> <<>>]

LevelOf(method) == IF method = "log" THEN "info" ELSE method

\* the numeric severities of the levels; 0 is the most severe
logLevels ==
    [error |-> 0, warn |-> 1, info |-> 2, http |-> 3, verbose |-> 4,
     debug |-> 5, silly |-> 6]

\* the service identity every record starts from
Identity(lg) ==
    LET id == [service |-> lg.service, environment |-> lg.environment,
               version |-> lg.version]
    IN IF variant = "observe" THEN Merge(id, [timestamp |-> "ts"]) ELSE id

\* message = JSON.stringify(args), which may throw (js.ok = FALSE)
NonStringFirst(lg, level, js) ==
    [ok |-> js.ok,
     rec |-> [level |-> level, message |-> js.s, kv |-> Identity(lg),
              hasArgs |-> FALSE, args |-> <<>>]]

\* Normalize with args.slice(2) where the code has args.slice(1)
NormalizeSliceTwo(lg, level, args) ==
    IF Len(args) = 0
    THEN [ok |-> TRUE, rec |-> [NoRec EXCEPT !.level = level, !.kv = Identity(lg)]]
    ELSE IF TypeOf(args[1]) = "string"
    THEN [ok |-> TRUE,
          rec |-> IF Len(args) > 1
                  THEN IF Len(args) = 2 /\ TypeOf(args[2]) = "object"
                                        /\ args[2].t # "null"
                       THEN [level |-> level, message |-> args[1].s,
                             kv |-> Merge(Identity(lg), OwnEnumerable(args[2])),
                             hasArgs |-> FALSE, args |-> <<>>]
                       ELSE [level |-> level, message |-> args[1].s,
                             kv |-> Identity(lg),
                             hasArgs |-> TRUE, args |-> Tail(Tail(args))]
                  ELSE [level |-> level, message |-> args[1].s,
                        kv |-> Identity(lg), hasArgs |-> FALSE, args |-> <<>>]]
    ELSE NonStringFirst(lg, level, JsonStringify(args))

\* the body of the try block of sendToBetterStack up to the submission
Normalize(lg, level, args) ==
    IF Len(args) = 0
    THEN [ok |-> TRUE, rec |-> [NoRec EXCEPT !.level = level, !.kv = Identity(lg)]]
    ELSE IF TypeOf(args[1]) = "string"
    THEN [ok |-> TRUE,
          rec |-> IF Len(args) > 1
                  THEN IF Len(args) = 2 /\ TypeOf(args[2]) = "object"
                                        /\ args[2].t # "null"
                       THEN [level |-> level, message |-> args[1].s,
                             kv |-> Merge(Identity(lg), OwnEnumerable(args[2])),
                             hasArgs |-> FALSE, args |-> <<>>]
                       ELSE [level |-> level, message |-> args[1].s,
                             kv |-> Identity(lg),
                             hasArgs |-> TRUE, args |-> Tail(args)]
                  ELSE [level |-> level, message |-> args[1].s,
                        kv |-> Identity(lg), hasArgs |-> FALSE, args |-> <<>>]]
    ELSE NonStringFirst(lg, level, JsonStringify(args))

\* the diagnostic the observe variant writes where the simple one is silent
Diagnostic == IF variant = "observe" THEN <<"diag">> ELSE <<>>

\* sendToBetterStack, lines 313-318: the re-initialisation the observe variant
\* tries whenever it holds a token but no sink
Reinitialize(lg) ==
    IF ~lg.logtail /\ variant = "observe"
       /\ lg.betterStackToken # "" /\ ~lg.isInitialized
    THEN [InitLogtail(lg) EXCEPT !.events = <<"diag">> \o @]
    ELSE [lg |-> lg, tried |-> 0, events |-> <<>>]

\* sendToBetterStack returning without a submission
Quiet(re, events) ==
    [lg |-> re.lg, tried |-> re.tried, events |-> re.events \o events,
     submitted |-> 0, rec |-> NoRec, threw |-> FALSE, promise |-> "none"]

\* Submit without the .catch handler on the returned promise
SubmitWithoutCatch(re, n, sub) ==
    IF ~n.ok
    THEN Quiet(re, Diagnostic)
    ELSE IF sub = "throws"
    THEN [Quiet(re, <<"submit">> \o Diagnostic) EXCEPT
             !.submitted = 1, !.rec = n.rec]
    ELSE [Quiet(re, <<"submit">>) EXCEPT
             !.submitted = 1, !.rec = n.rec, !.promise = "bare"]

\* the submission itself: this.logtail[level](message, metadata).catch(...)
\* inside the try block; n is the normalised record, sub what the sink does
Submit(re, n, sub) ==
    IF ~n.ok
    THEN Quiet(re, Diagnostic)
    ELSE IF sub = "throws"
    THEN [Quiet(re, <<"submit">> \o Diagnostic) EXCEPT
             !.submitted = 1, !.rec = n.rec]
    ELSE [Quiet(re, <<"submit">>) EXCEPT
             !.submitted = 1, !.rec = n.rec, !.promise = "handled"]

SendAfterInit(re, level, args, sub) ==
    IF ~re.lg.logtail THEN Quiet(re, <<>>)
    ELSE Submit(re, Normalize(re.lg, level, args), sub)

\* Logger.sendToBetterStack; sub: what the sink's level method does when called
SendToBetterStack(lg, level, args, sub) ==
    SendAfterInit(Reinitialize(lg), level, args, sub)

\* BindArgs with the spread written the other way round: { ...args[1], ...context }
BindArgsContextWins(context, args) ==
    IF Len(args) > 0 /\ TypeOf(args[1]) = "string"
       /\ Len(args) > 1 /\ TypeOf(args[2]) = "object"
    THEN [args EXCEPT ![2] = Obj(Merge(OwnEnumerable(args[2]), context))]
    ELSE IF Len(args) > 0 /\ TypeOf(args[1]) = "string"
    THEN Append(args, Obj(context))
    ELSE args

\* the argument rewriting of the methods with() installs on a derived logger
BindArgs(context, args) ==
    IF Len(args) > 0 /\ TypeOf(args[1]) = "string"
       /\ Len(args) > 1 /\ TypeOf(args[2]) = "object"
    THEN [args EXCEPT ![2] = Obj(Merge(context, OwnEnumerable(args[2])))]
    ELSE IF Len(args) > 0 /\ TypeOf(args[1]) = "string"
    THEN Append(args, Obj(context))
    ELSE args

\* log(), lines 278-281: the observe variant retries the initialisation
EnsureInitialized(lg, method) ==
    IF method = "log" /\ variant = "observe"
       /\ ~lg.isInitialized /\ lg.betterStackToken # ""
    THEN InitLogtail(lg)
    ELSE [lg |-> lg, tried |-> 0, events |-> <<>>]

\* console.<method>(...args) and then sendToBetterStack(level, args)
ConsoleThenSend(pre, send) ==
    [send EXCEPT !.tried = pre.tried + send.tried,
                 !.events = pre.events \o <<"console">> \o send.events]

OriginalFrom(pre, method, args, sub) ==
    ConsoleThenSend(pre, SendToBetterStack(pre.lg, LevelOf(method), args, sub))

\* one of log/info/warn/error/debug as the class defines it
Original(lg, method, args, sub) ==
    OriginalFrom(EnsureInitialized(lg, method), method, args, sub)

\* the arguments the class's method receives: on a derived logger the
\* override installed by with() rewrites them first
Sent(lg, args) == IF lg.derived THEN BindArgs(lg.context, args) ELSE args

\* a leveled method as the caller sees it: overridden on derived loggers
Invoke(lg, method, args, sub) == Original(lg, method, Sent(lg, args), sub)

Min(a, b) == IF a < b THEN a ELSE b

\* the number of pending submission promises of the sinks of loggers l..
RECURSIVE Pending(_)
Pending(l) == IF l > MaxLoggers THEN 0 ELSE Len(inflight[l]) + Pending(l + 1)

Call(l, method, args, sub) ==
    /\ variant # "winston"
    /\ loggers[l].exists
    /\ \E r \in {Invoke(loggers[l], method, args, sub)} :
          /\ r.promise # "none" => Pending(1) < MaxInflight
          /\ loggers' = [loggers EXCEPT ![l] = r.lg]
          /\ attempts' = [attempts EXCEPT ![l] = Min(@ + r.tried, MaxAttempts)]
          /\ last' = [logger |-> l, method |-> method, args |-> args,
                      sent |-> Sent(loggers[l], args),
                      events |-> r.events, threw |-> r.threw,
                      submitted |-> r.submitted, rec |-> r.rec]
          /\ inflight' = IF r.promise = "none" THEN inflight
                         ELSE [inflight EXCEPT
                                  ![l] = Append(@, r.promise = "handled")]
    /\ UNCHANGED <<variant, opts, createThrew, parent, unhandled, flush, elapsed>>

\* what the sink of logger l may do with a submission; a logger that cannot
\* reach a sink never asks
SinkBehaviours(l) ==
    IF loggers[l].logtail THEN SubmitOutcomes ELSE {"promise"}

Log(l) ==
    \E args \in ArgLists, sub \in SinkBehaviours(l) : Call(l, "log", args, sub)

Info(l) ==
    \E args \in ArgLists, sub \in SinkBehaviours(l) : Call(l, "info", args, sub)

Warn(l) ==
    \E args \in ArgLists, sub \in SinkBehaviours(l) : Call(l, "warn", args, sub)

Error(l) ==
    \E args \in ArgLists, sub \in SinkBehaviours(l) : Call(l, "error", args, sub)

Debug(l) ==
    \E args \in ArgLists, sub \in SinkBehaviours(l) : Call(l, "debug", args, sub)

\* a submission promise of logger l's sink settles; a rejection runs the
\* handler .catch attached (which only writes a diagnostic, or nothing)
SettleSubmission(l, rejected) ==
    /\ inflight[l] # <<>>
    /\ inflight' = [inflight EXCEPT ![l] = Tail(@)]
    /\ unhandled' = IF rejected /\ ~Head(inflight[l])
                    THEN Min(unhandled + 1, MaxInflight)
                    ELSE unhandled
    /\ UNCHANGED <<variant, opts, createThrew, loggers, parent, attempts,
                   last, flush, elapsed>>

----------------------------------------------------------------------------
(* Binding context *)

\* the options with() passes to the constructor of the new logger
WithOptions(this, context) ==
    [betterStackToken |-> this.betterStackToken,
     betterStackEndpoint |-> this.betterStackEndpoint,
     service |-> Or(Get(context, "service"), this.service),
     environment |-> Or(Get(context, "environment"), this.environment),
     version |-> Or(Get(context, "version"), this.version)]

\* with() that also stores the context's service on the logger it is called on
WithWritingThis(l, d, context) ==
    /\ variant # "winston"
    /\ loggers[l].exists
    /\ ~loggers[d].exists
    /\ \A e \in LoggerIds : e < d => loggers[e].exists
    /\ \E made \in {NewLogger(variant, WithOptions(loggers[l], context))} :
          /\ loggers' = [loggers EXCEPT
                            ![l] = [@ EXCEPT !.service = Or(Get(context, "service"), @)],
                            ![d] = [made.lg EXCEPT !.derived = TRUE,
                                                   !.context = context]]
          /\ attempts' = [attempts EXCEPT ![d] = made.tried]
    /\ parent' = [parent EXCEPT ![d] = l]
    /\ UNCHANGED <<variant, opts, createThrew, last, inflight,
                   unhandled, flush, elapsed>>

\* with() handing the derived logger the sink of the logger it is called on
\* instead of constructing one
WithSharedSink(l, d, context) ==
    /\ variant # "winston"
    /\ loggers[l].exists
    /\ ~loggers[d].exists
    /\ \A e \in LoggerIds : e < d => loggers[e].exists
    /\ \E made \in {NewLogger(variant, WithOptions(loggers[l], context))} :
          /\ loggers' = [loggers EXCEPT
                            ![d] = [made.lg EXCEPT !.derived = TRUE,
                                                   !.context = context,
                                                   !.logtail = loggers[l].logtail]]
          /\ attempts' = [attempts EXCEPT ![d] = 0]
    /\ parent' = [parent EXCEPT ![d] = l]
    /\ UNCHANGED <<variant, opts, createThrew, last, inflight,
                   unhandled, flush, elapsed>>

\* Logger.with(context), called on logger l; d is the new object
With(l, d, context) ==
    /\ variant # "winston"
    /\ loggers[l].exists
    /\ ~loggers[d].exists
    /\ \A e \in LoggerIds : e < d => loggers[e].exists
    /\ \E made \in {NewLogger(variant, WithOptions(loggers[l], context))} :
          /\ loggers' = [loggers EXCEPT
                            ![d] = [made.lg EXCEPT !.derived = TRUE,
                                                   !.context = context]]
          /\ attempts' = [attempts EXCEPT ![d] = made.tried]
    /\ parent' = [parent EXCEPT ![d] = l]
    /\ UNCHANGED <<variant, opts, createThrew, last, inflight,
                   unhandled, flush, elapsed>>

----------------------------------------------------------------------------
(* Delivery drain: flush() *)

\* no flush() has been called
NoFlush ==
    [state |-> "idle", logger |-> 0, arg |-> 0, timer |-> "none",
     drain |-> "none", phase |-> "", outcomes |-> <<>>]

\* the delay of the timer flush() arms
FlushTimeoutMs == 3000

\* the timeouts callers pass to flush(); the signature takes no parameter
FlushArgs == {50, 1000}

\* the instants (ms after flush() was called) at which the model looks
Instants == {50, 1000, FlushTimeoutMs, 4000}

\* what the sink's flush() does when called
DrainOutcomes == {"promise", "throws"}

\* Logger.flush of src/src/observe.ts up to its first suspension
FlushObserve(lg, f, drainAct) ==
    IF ~lg.logtail
    THEN [f EXCEPT !.state = "resolved", !.outcomes = <<"nosink">>]
    ELSE IF drainAct = "throws"
    THEN [f EXCEPT !.state = "resolved", !.timer = "armed",
                   !.drain = "threw", !.outcomes = <<"exception">>]
    ELSE [f EXCEPT !.state = "pending", !.timer = "armed", !.drain = "pending"]

\* Logger.flush of src/unnamed/part_000 up to its first suspension
FlushSimple(lg, f, drainAct) ==
    IF ~lg.logtail
    THEN [f EXCEPT !.state = "resolved"]
    ELSE IF drainAct = "throws"
    THEN [f EXCEPT !.state = "resolved", !.drain = "threw"]
    ELSE [f EXCEPT !.state = "pending", !.drain = "pending"]

\* enhancedLogger.flush of the winston variant up to its first suspension
FlushWinston(lg, f, drainAct) ==
    IF ~lg.logtail
    THEN [f EXCEPT !.state = "pending", !.phase = "ending"]
    ELSE IF drainAct = "throws"
    THEN [f EXCEPT !.state = "rejected", !.drain = "threw"]
    ELSE [f EXCEPT !.state = "pending", !.drain = "pending", !.phase = "drain"]

\* flush() is called on logger l; arg is the timeout the caller passes
Flush(l, arg, drainAct) ==
    /\ loggers[l].exists
    /\ flush.state = "idle"
    /\ flush' = CASE variant = "observe" ->
                      FlushObserve(loggers[l], [NoFlush EXCEPT !.logger = l, !.arg = arg], drainAct)
                  [] variant = "simple" ->
                      FlushSimple(loggers[l], [NoFlush EXCEPT !.logger = l, !.arg = arg], drainAct)
                  [] OTHER ->
                      FlushWinston(loggers[l], [NoFlush EXCEPT !.logger = l, !.arg = arg], drainAct)
    /\ elapsed' = 0
    /\ UNCHANGED <<variant, opts, createThrew, loggers, parent, attempts, last,
                   inflight, unhandled>>

Settled(f) == IF f.state = "pending" THEN [f EXCEPT !.state = "resolved"] ELSE f

\* the .then / .catch callbacks of Logger.flush (observe): report, clear the
\* timer, resolve
DrainSettledObserve(f, rejected) ==
    Settled([f EXCEPT !.drain = IF rejected THEN "rejected" ELSE "resolved",
                      !.outcomes = Append(@, IF rejected THEN "error" ELSE "flushed"),
                      !.timer = IF @ = "armed" THEN "cleared" ELSE @])

\* the continuation of `await this.logtail.flush()` inside try/catch (simple)
DrainSettledSimple(f, rejected) ==
    Settled([f EXCEPT !.drain = IF rejected THEN "rejected" ELSE "resolved"])

\* the continuation of the unguarded `await logtail.flush()` (winston): a
\* rejection rejects flush(); otherwise wait for the logger's 'finish' event
DrainSettledWinston(f, rejected) ==
    IF rejected
    THEN [f EXCEPT !.drain = "rejected", !.state = "rejected"]
    ELSE [f EXCEPT !.drain = "resolved", !.phase = "ending"]

\* the promise returned by the sink's flush() settles; it resolves once the
\* records buffered in that sink have been delivered
DrainSettles(rejected) ==
    /\ flush.drain = "pending"
    /\ ~rejected => inflight[flush.logger] = <<>>
    /\ flush' = CASE variant = "observe" -> DrainSettledObserve(flush, rejected)
                  [] variant = "simple" -> DrainSettledSimple(flush, rejected)
                  [] OTHER -> DrainSettledWinston(flush, rejected)
    /\ UNCHANGED <<variant, opts, createThrew, loggers, parent, attempts, last,
                   inflight, unhandled, elapsed>>

\* the setTimeout callback of Logger.flush (observe)
TimerFires ==
    /\ flush.timer = "armed"
    /\ elapsed >= FlushTimeoutMs
    /\ flush' = Settled([flush EXCEPT !.timer = "fired",
                                      !.outcomes = Append(@, "timedout")])
    /\ UNCHANGED <<variant, opts, createThrew, loggers, parent, attempts, last,
                   inflight, unhandled, elapsed>>

\* the winston logger emits 'finish' after logger.end()
LoggerFinishes ==
    /\ flush.state = "pending"
    /\ flush.phase = "ending"
    /\ flush' = [flush EXCEPT !.state = "resolved", !.phase = "finished"]
    /\ UNCHANGED <<variant, opts, createThrew, loggers, parent, attempts, last,
                   inflight, unhandled, elapsed>>

\* time passes to the next instant; a timer that is due fires first
Tick ==
    /\ flush.state = "pending" \/ flush.timer = "armed"
    /\ \E t \in Instants :
          /\ t > elapsed
          /\ \A u \in Instants : u > elapsed => t <= u
          /\ flush.timer = "armed" => t <= FlushTimeoutMs
          /\ elapsed' = t
    /\ UNCHANGED <<variant, opts, createThrew, loggers, parent, attempts, last,
                   inflight, unhandled, flush>>

----------------------------------------------------------------------------
(* Specification of the logging core *)

NoCall == [logger |-> 0, method |-> "", args |-> <<>>, sent |-> <<>>,
           events |-> <<>>,
           threw |-> FALSE, submitted |-> 0, rec |-> NoRec]

Init ==
    /\ variant \in Variants
    /\ opts \in RootOptions
    /\ \E made \in {CreateLogger(variant, opts)} :
          /\ loggers = [l \in LoggerIds |-> IF l = Root THEN made.lg ELSE NoLogger]
          /\ attempts = [l \in LoggerIds |-> IF l = Root THEN made.tried ELSE 0]
          /\ createThrew = made.threw
    /\ parent = [l \in LoggerIds |-> 0]
    /\ last = NoCall
    /\ inflight = [l \in LoggerIds |-> <<>>]
    /\ unhandled = 0
    /\ flush = NoFlush
    /\ elapsed = 0

Next ==
    \/ \E l \in LoggerIds : Log(l)
    \/ \E l \in LoggerIds : Info(l)
    \/ \E l \in LoggerIds : Warn(l)
    \/ \E l \in LoggerIds : Error(l)
    \/ \E l \in LoggerIds : Debug(l)
    \/ \E l \in LoggerIds, rejected \in BOOLEAN : SettleSubmission(l, rejected)
    \/ \E l, d \in 1..(MaxDerived + 1), context \in Contexts : With(l, d, context)

Spec == Init /\ [][Next]_vars

----------------------------------------------------------------------------
(* Specification of repeated binding: with() on derived loggers, one level
   deeper than Spec, with the calls that take bound context *)

NextRebind ==
    \/ \E l, d \in LoggerIds, context \in Contexts : With(l, d, context)
    \/ \E l \in LoggerIds, args \in BoundArgLists :
          \E sub \in SinkBehaviours(l) : Call(l, "info", args, sub)
    \/ \E l \in LoggerIds, rejected \in BOOLEAN : SettleSubmission(l, rejected)

RebindSpec == Init /\ [][NextRebind]_vars

----------------------------------------------------------------------------
(* Specification of the record normaliser: every leveled method on the root
   and on one logger derived from it, over all argument shapes *)

NextNormalize ==
    \/ \E context \in Contexts : With(Root, Root + 1, context)
    \/ \E l \in {Root, Root + 1}, method \in Methods, args \in WideArgLists :
          \E sub \in SinkBehaviours(l) : Call(l, method, args, sub)
    \/ \E l \in LoggerIds, rejected \in BOOLEAN : SettleSubmission(l, rejected)

NormalizeSpec == Init /\ [][NextNormalize]_vars

----------------------------------------------------------------------------
(* Specification of the delivery drain *)

NextFlush ==
    \/ \E l \in LoggerIds, arg \in FlushArgs, drainAct \in DrainOutcomes :
          Flush(l, arg, drainAct)
    \/ \E rejected \in BOOLEAN : DrainSettles(rejected)
    \/ TimerFires
    \/ LoggerFinishes
    \/ Tick

FlushSpec == Init /\ [][NextFlush]_vars

----------------------------------------------------------------------------
(* Specification of the drain with records in flight: records are submitted
   through the root and a logger derived from it, then flush() is called *)

NextDrain ==
    \/ \E context \in Contexts : With(Root, Root + 1, context)
    \/ \E l \in {Root, Root + 1} :
          \E sub \in SinkBehaviours(l) :
             flush.state = "idle" /\ Call(l, "info", <<Str("x")>>, sub)
    \/ \E l \in LoggerIds, rejected \in BOOLEAN : SettleSubmission(l, rejected)
    \/ \E l \in LoggerIds, arg \in FlushArgs, drainAct \in DrainOutcomes :
          Flush(l, arg, drainAct)
    \/ \E rejected \in BOOLEAN : DrainSettles(rejected)
    \/ TimerFires
    \/ LoggerFinishes
    \/ Tick

DrainSpec == Init /\ [][NextDrain]_vars

----------------------------------------------------------------------------
(* Properties of the delivery drain *)

\* C1: the promise returned by flush() never rejects, whatever the sink's
\* drain does (resolves, rejects, throws, never settles).
C1_FlushNeverRejects == flush.state # "rejected"

\* C2: flush(timeout) against a sink whose drain does not settle completes
\* once the caller-supplied timeout has elapsed: while the drain is pending,
\* flush is not still pending later than `timeout` ms after the call.
C2_FlushSettlesWithinTimeout ==
    (flush.state = "pending" /\ flush.drain = "pending") => elapsed <= flush.arg

----------------------------------------------------------------------------
(* Properties of the leveled methods and of with() *)

IdentityKeys == {"service", "environment", "version"}

\* the keys of the map a call passes as its only trailing argument
CallMeta(args) ==
    IF Len(args) = 2 /\ args[2].t = "obj" THEN args[2].m ELSE EmptyMap

StringThenMap(args) == Len(args) = 2 /\ args[1].t = "str" /\ args[2].t = "obj"

ConsoleLines(events) == Cardinality({i \in DOMAIN events : events[i] = "console"})

\* C3: a logger whose sink failed to construct makes a bounded number of
\* construction attempts however many leveled calls follow: the constructor's
\* attempt and at most a single retry.
C3_InitAttemptsBounded ==
    \A l \in LoggerIds :
        (loggers[l].exists /\ loggers[l].betterStackToken # "" /\ ~loggers[l].logtail)
            => attempts[l] <= 1 + 1

\* C4: on logger.with(c1).with(c2), info(msg, m) submits metadata holding every
\* entry of c1, c2 and m, the rightmost winning.
C4_BindingComposes ==
    \A l \in LoggerIds :
        (/\ last.logger = l
         /\ last.submitted = 1
         /\ parent[l] # 0
         /\ parent[parent[l]] # 0
         /\ Len(last.args) >= 1
         /\ last.args[1].t = "str"
         /\ Len(last.args) = 1 \/ StringThenMap(last.args))
        => LET c1 == loggers[parent[l]].context
               c2 == loggers[l].context
               want == Merge(Merge(c1, c2), CallMeta(last.args))
           IN \A k \in DOMAIN want :
                  k \in DOMAIN last.rec.kv /\ last.rec.kv[k] = want[k]

\* the fields, sink reference and initialisation state of an existing logger
\* (and the count of sink constructions made for it) change only in a leveled
\* call on that very logger: not in with(), not in a call on another logger
ChangedOnlyByOwnCall(j) ==
    (loggers[j].exists /\ (loggers'[j] # loggers[j] \/ attempts'[j] # attempts[j]))
        => (parent' = parent /\ last'.logger = j)

\* a call on the root logger carries the root's own identity and no key that
\* was only bound on a derived logger
RootCallCarriesNoContext ==
    (last.logger = Root /\ last.submitted = 1)
        => /\ DOMAIN last.rec.kv \subseteq
                IdentityKeys \cup {"timestamp"} \cup DOMAIN CallMeta(last.args)
           /\ \A k \in IdentityKeys \ DOMAIN CallMeta(last.args) :
                last.rec.kv[k] = CASE k = "service" -> Or(opts.service, "application")
                                   [] k = "environment" -> Or(opts.environment, "development")
                                   [] OTHER -> Or(opts.version, "1.0.0")

\* C5: with(context) never changes the logger it is called on, and neither do
\* leveled calls on the derived loggers: the parent's fields, sink reference
\* and initialisation state stay as they were, and a later call on the
\* original logger submits its original identity and no bound-context key.
C5_WithLeavesParentUnchanged ==
    /\ []RootCallCarriesNoContext
    /\ [][\A j \in LoggerIds : ChangedOnlyByOwnCall(j)]_vars

\* with() was called on the root with an identity-overriding context, the
\* derived logger was used (its submission is still pending), and then the
\* root submitted a record
C5_Witness ==
    /\ last.logger = Root
    /\ last.submitted = 1
    /\ \E d \in LoggerIds :
          /\ parent[d] = Root
          /\ "service" \in DOMAIN loggers[d].context
          /\ inflight[d] # <<>>

\* C6: on a derived logger, method(msg, meta) with a string and a plain map
\* submits the identity fields overlaid by the context overlaid by meta.
C6_DerivedMetadataOverlay ==
    \A l \in LoggerIds :
        (/\ last.logger = l
         /\ last.submitted = 1
         /\ loggers[l].derived
         /\ StringThenMap(last.args))
        => LET ctx == loggers[l].context
               meta == last.args[2].m
               kv == last.rec.kv
           IN /\ DOMAIN kv \ {"timestamp"} =
                    IdentityKeys \cup DOMAIN ctx \cup DOMAIN meta
              /\ \A k \in DOMAIN meta : kv[k] = meta[k]
              /\ \A k \in DOMAIN ctx \ DOMAIN meta : kv[k] = ctx[k]
              /\ \A k \in IdentityKeys \ (DOMAIN ctx \cup DOMAIN meta) :
                    kv[k] = loggers[l][k]

\* a derived call whose meta overrides one context key and leaves another
C6_Witness ==
    /\ last.logger # 0
    /\ last.submitted = 1
    /\ loggers[last.logger].derived
    /\ StringThenMap(last.args)
    /\ \E k \in DOMAIN loggers[last.logger].context :
          k \in DOMAIN last.args[2].m
          /\ last.args[2].m[k] # loggers[last.logger].context[k]
    /\ \E k \in DOMAIN loggers[last.logger].context : k \notin DOMAIN last.args[2].m

\* C7: with the minimum level at warn, a debug call writes no console line and
\* submits nothing, and an error call writes exactly one line and (with a
\* sink) submits exactly one record; a call below the threshold is a no-op.
C7_LevelFilter ==
    last.logger # 0 =>
        IF logLevels[LevelOf(last.method)] > logLevels[opts.minLevel]
        THEN ConsoleLines(last.events) = 0 /\ last.submitted = 0
        ELSE /\ ConsoleLines(last.events) = 1
             /\ loggers[last.logger].logtail => last.submitted = 1

\* C8: no failure of a submission reaches the caller: the call returns
\* normally, the console line precedes the submission, and every rejected
\* submission promise has a handler.
C8_SubmissionFailureContained ==
    /\ ~last.threw
    /\ unhandled = 0
    /\ \A j \in DOMAIN last.events :
          last.events[j] = "submit"
              => \E i \in DOMAIN last.events : i < j /\ last.events[i] = "console"
    /\ last.logger # 0 => ConsoleLines(last.events) = 1

\* a call has returned while its submission promise is still pending, with
\* the rejection handler attached
C8_Witness ==
    /\ last.logger # 0
    /\ last.submitted = 1
    /\ ~last.threw
    /\ inflight[last.logger] = <<TRUE>>

\* C9: a failure of the sink constructor never propagates out of
\* createLogger / new Logger; the logger runs console-only: each leveled call
\* writes its console line and submits nothing.
C9_ConstructionFailureContained ==
    /\ ~createThrew
    /\ (opts.betterStackToken # "" /\ opts.betterStackEndpoint = BadEndpoint)
          => /\ loggers[Root].exists
             /\ last.logger = Root
                   => ConsoleLines(last.events) = 1 /\ last.submitted = 0

\* metadata.error.name of a submitted record ("" when there is no error entry)
ErrorName(rec) == IF "error" \in DOMAIN rec.kv THEN rec.kv["error"] ELSE ""

\* C10: log(err) with an error as its only argument submits message =
\* err.message and metadata.error.name = err.name.
C10_ErrorFirstArgument ==
    (/\ last.logger # 0
     /\ last.submitted = 1
     /\ Len(last.args) = 1
     /\ last.args[1].t = "err")
        => /\ last.rec.message = last.args[1].s
           /\ ErrorName(last.rec) = last.args[1].n

----------------------------------------------------------------------------
(* Properties of the record normaliser *)

\* C11: normalisation never aborts a call: every leveled call on a logger
\* with an initialised sink, whatever its arguments (also a first argument
\* whose JSON serialisation fails), submits exactly one record.
C11_NormalizationNeverAborts ==
    (last.logger # 0 /\ loggers[last.logger].logtail) => last.submitted = 1

\* C12: log(msg, meta) with a plain map meta submits metadata holding every
\* entry of meta with meta's value and the service, environment and version
\* keys; every submitted record carries a timestamp key.
C12_MetadataSuperset ==
    /\ last.submitted = 1 => "timestamp" \in DOMAIN last.rec.kv
    /\ (last.submitted = 1 /\ StringThenMap(last.args))
          => /\ \A k \in DOMAIN last.args[2].m :
                    k \in DOMAIN last.rec.kv /\ last.rec.kv[k] = last.args[2].m[k]
             /\ IdentityKeys \subseteq DOMAIN last.rec.kv

ParentRecord(l) ==
    Normalize(loggers[parent[l]], LevelOf(last.method), last.args)

\* C15: a derived logger differs from its parent only by merged metadata,
\* for every leveled method and argument shape: it submits the message and
\* the trailing-argument list its parent would submit for the same call, and
\* its metadata holds every bound-context key at the top level.
C15_DerivedDiffersOnlyByMetadata ==
    \A l \in LoggerIds :
        (/\ last.logger = l
         /\ last.submitted = 1
         /\ parent[l] # 0
         /\ Len(last.args) >= 1
         /\ ParentRecord(l).ok)
        => /\ last.rec.message = ParentRecord(l).rec.message
           /\ last.rec.hasArgs = ParentRecord(l).rec.hasArgs
           /\ last.rec.args = ParentRecord(l).rec.args
           /\ DOMAIN loggers[l].context \subseteq DOMAIN last.rec.kv

----------------------------------------------------------------------------
(* Further properties of the delivery drain *)

\* C14: flush() on a logger with no remote sink resolves immediately: no
\* drain is called, no timer is scheduled and nothing is left pending.
C14_NoSinkFlushImmediate ==
    (flush.logger # 0 /\ ~loggers[flush.logger].logtail)
        => /\ flush.state = "resolved"
           /\ flush.drain = "none"
           /\ flush.timer = "none"

\* the outcome diagnostics a flush has written so far
ReportedOutcomes(f) ==
    {i \in DOMAIN f.outcomes : f.outcomes[i] \in {"flushed", "error", "timedout"}}

\* C16: a flush() on a logger with a sink reports exactly one of 'flushed
\* successfully', 'error flushing' and 'timed out' under every interleaving
\* of the timer and the drain promise: never two of them, none missing once
\* flush has resolved, and no 'timed out' once the drain has cleared the timer.
C16_FlushReportsOneOutcome ==
    (variant = "observe" /\ flush.logger # 0 /\ loggers[flush.logger].logtail)
        => /\ Cardinality(ReportedOutcomes(flush)) <= 1
           /\ flush.state = "resolved" => Len(flush.outcomes) >= 1
           /\ flush.timer = "cleared"
                 => \A i \in DOMAIN flush.outcomes : flush.outcomes[i] # "timedout"

\* a sink was constructed for every derived logger that holds a token
DerivedOwnsSink ==
    \A d \in LoggerIds :
        (parent[d] # 0 /\ loggers[d].betterStackToken # "") => attempts[d] >= 1

\* a submission is buffered in the sink of the logger it was made through
BufferedInOwnSink ==
    \A j \in LoggerIds :
        Len(inflight'[j]) > Len(inflight[j]) => last'.logger = j

\* no step of a flush delivers or discards a buffered record of any sink:
\* the drain waits for the records of the flushed logger's sink only
FlushLeavesBuffers == flush' # flush => inflight' = inflight

\* C17: with() on a logger holding a token constructs a sink of its own for
\* the derived logger; a record submitted through a derived logger is
\* buffered in that sink only, and flush() on the parent drains the parent's
\* sink alone.
C17_DerivedSinkSeparate ==
    /\ []DerivedOwnsSink
    /\ [][BufferedInOwnSink /\ FlushLeavesBuffers]_vars

\* flush() on the parent has resolved on the drain's confirmation while a
\* record submitted earlier through the derived logger is still undelivered
C17_Witness ==
    /\ flush.logger = Root
    /\ flush.state = "resolved"
    /\ flush.drain = "resolved"
    /\ \E d \in LoggerIds :
          /\ parent[d] = Root
          /\ loggers[d].logtail
          /\ inflight[d] # <<>>

====
